---- MODULE Spec2Model ----
(***************************************************************************)
(* Model of the local HTTPS media server of status-go (server/server.go): *)
(* the process-wide TLS certificate (generateTLSCert, PublicTLSCert,      *)
(* NewServer) and the listener lifecycle of a Server (Start, Stop,        *)
(* listenAndServe, ToForeground, ToBackground), the three resource         *)
(* handlers (image, audio, identicon), and of the pending-sticker-pack     *)
(* methods of the stickers API (AddPending, Pending, RemovePending).       *)
(*                                                                         *)
(* The code takes no lock anywhere, so every goroutine is modelled as a    *)
(* sequence of steps holding one access to shared memory (or to the        *)
(* operating system's port table) each; the steps of different goroutines  *)
(* interleave freely.                                                      *)
(***************************************************************************)
EXTENDS Integers, FiniteSets, Sequences, Bags, TLC

\* ------------------------------------------------------------------ bounds
\* Goroutines that call into the certificate provider.
NumCallers == 2
\* Key pairs ecdsa.GenerateKey can hand out before the model stops generating.
MaxKeys == 3

\* Listen loops (goroutines running listenAndServe) alive at the same time.
MaxLoops == 2
\* TCP ports of the loopback interface.
MaxPort == 2

Callers == 1..NumCallers
Ports == 1..MaxPort

VARIABLES
    \* certificate provider: process-wide state
    globalCertificate,  \* *tls.Certificate, NilCert while unset
    globalPem,          \* string, EmptyString while unset
    nKeys,              \* key pairs generated so far (names the next fresh key)
    succeeded,          \* some generateTLSCert call has returned nil
    \* certificate provider: one record per calling goroutine
    calls,
    \* the Server
    Port,               \* s.Port, 0 while no port is remembered
    run,                \* s.run
    server,             \* s.server: "nil", or "set" once Start has stored a handle
    \* the http.Server values and the goroutines
    shut,               \* Shutdown has been called on the handle s.server holds
    loops,              \* the listen-loop goroutines: a bag of records
    app,                \* the goroutine that calls the Server's methods
    \* the resource handlers
    db,                 \* the user_messages table: message id -> row
    reqs,               \* one record per request in flight
    \* the stickers API
    settings,           \* the settings store's pending-sticker-packs column
    stk                 \* one record per goroutine calling the stickers API

certVars == <<globalCertificate, globalPem, nKeys, succeeded, calls>>

srvVars == <<Port, run, server, shut, loops, app>>

hdlVars == <<db, reqs>>

stkVars == <<settings, stk>>

vars == <<globalCertificate, globalPem, nKeys, succeeded, calls,
          Port, run, server, shut, loops, app, db, reqs, settings, stk>>

\* ------------------------------------------------------- certificate values
\* A PEM block is its type and the key pair it was made from.
EmptyString == [kind |-> "", of |-> 0]
CertPem(k) == [kind |-> "CERTIFICATE", of |-> k]
KeyPem(k) == [kind |-> "EC PRIVATE KEY", of |-> k]

\* tls.X509KeyPair(certPem, keyPem): the parsed certificate with its key.
NilCert == [Certificate |-> 0, PrivateKey |-> 0]
X509KeyPair(certPem, keyPem) == [Certificate |-> certPem.of, PrivateKey |-> keyPem.of]

\* The public-certificate PEM of a parsed certificate.
PemOfCert(c) == CertPem(c.Certificate)

\* The four places generateTLSCert can fail, and success.
GenOutcomes == {"ok", "errKey", "errCert", "errPem", "errPair"}

Ops == {"generateTLSCert", "PublicTLSCert", "NewServer"}

\* A goroutine outside any call. ret* hold what its last call returned:
\* retErr is "nil" or "err" ("" before any call returns), retPem the string of
\* PublicTLSCert, retServer the cert field of the Server NewServer returned.
IdleCall ==
    [pc |-> "idle", op |-> "", key |-> 0, err |-> FALSE,
     retErr |-> "", retPem |-> EmptyString, retServer |-> NilCert]

\* ------------------------------------------------ certificate provider steps
\* A goroutine enters generateTLSCert, directly or through a wrapper.
CallBegin(p, op) ==
    /\ calls[p].pc = "idle"
    /\ calls' = [calls EXCEPT ![p] = [IdleCall EXCEPT !.pc = "check", !.op = op]]
    /\ UNCHANGED <<globalCertificate, globalPem, nKeys, succeeded>>
    /\ UNCHANGED <<srvVars, hdlVars, stkVars>>

\* Mutant of AlreadyGenerated: the cached certificate is never recognised.
AlreadyGeneratedNever == FALSE

\* The test that guards generation.
AlreadyGenerated == globalCertificate # NilCert

\* line 25: if globalCertificate != nil { return nil }
GenCheck(p) ==
    /\ calls[p].pc = "check"
    /\ calls' = [calls EXCEPT ![p].pc = IF AlreadyGenerated THEN "ret" ELSE "gen"]
    /\ UNCHANGED <<globalCertificate, globalPem, nKeys, succeeded>>
    /\ UNCHANGED <<srvVars, hdlVars, stkVars>>

\* lines 29-50: the key pair, the certificate, the PEM blocks and the parsed
\* pair are all local; any of the four calls may fail and the error is returned.
\* Mutant of AfterGen: the errors of the four calls are ignored.
AfterGenIgnoringErrors(outcome) == "storeCert"

\* Where generateTLSCert goes after the four calls: every err != nil returns.
AfterGen(outcome) == IF outcome = "ok" THEN "storeCert" ELSE "ret"

GenLocal(p, outcome) ==
    /\ calls[p].pc = "gen"
    /\ IF outcome = "errKey"
       THEN /\ calls' = [calls EXCEPT ![p].pc = AfterGen(outcome), ![p].err = TRUE]
            /\ UNCHANGED nKeys
       ELSE /\ nKeys < MaxKeys
            /\ nKeys' = nKeys + 1
            /\ calls' = [calls EXCEPT
                   ![p].pc = AfterGen(outcome),
                   ![p].err = (outcome # "ok"),
                   ![p].key = nKeys + 1]
    /\ UNCHANGED <<globalCertificate, globalPem, succeeded>>
    /\ UNCHANGED <<srvVars, hdlVars, stkVars>>

\* line 52: globalCertificate = &finalCert
StoreCert(p) ==
    /\ calls[p].pc = "storeCert"
    /\ globalCertificate' = X509KeyPair(CertPem(calls[p].key), KeyPem(calls[p].key))
    /\ calls' = [calls EXCEPT ![p].pc = "storePem"]
    /\ UNCHANGED <<globalPem, nKeys, succeeded>>
    /\ UNCHANGED <<srvVars, hdlVars, stkVars>>

\* The string generateTLSCert publishes for key pair k.
PublishedPem(k) == CertPem(k)

\* line 53: globalPem = string(certPem)
StorePem(p) ==
    /\ calls[p].pc = "storePem"
    /\ globalPem' = PublishedPem(calls[p].key)
    /\ calls' = [calls EXCEPT ![p].pc = "ret"]
    /\ UNCHANGED <<globalCertificate, nKeys, succeeded>>
    /\ UNCHANGED <<srvVars, hdlVars, stkVars>>

\* generateTLSCert returns (lines 26, 31, 39, 44, 49, 54). A direct caller is
\* done; PublicTLSCert and NewServer go on to read the global they return.
GenReturn(p) ==
    /\ calls[p].pc = "ret"
    /\ succeeded' = (succeeded \/ ~calls[p].err)
    /\ calls' = [calls EXCEPT
           ![p].pc = IF calls[p].err \/ calls[p].op = "generateTLSCert"
                     THEN "idle"
                     ELSE IF calls[p].op = "PublicTLSCert" THEN "readPem" ELSE "readCert",
           ![p].retErr = IF calls[p].err THEN "err" ELSE "nil",
           ![p].key = 0]
    /\ UNCHANGED <<globalCertificate, globalPem, nKeys>>
    /\ UNCHANGED <<srvVars, hdlVars, stkVars>>

\* line 64: return globalPem, nil
ReadPem(p) ==
    /\ calls[p].pc = "readPem"
    /\ calls' = [calls EXCEPT ![p].pc = "idle", ![p].retPem = globalPem]
    /\ UNCHANGED <<globalCertificate, globalPem, nKeys, succeeded>>
    /\ UNCHANGED <<srvVars, hdlVars, stkVars>>

\* line 179: return &Server{..., cert: globalCertificate, Port: 0}, nil
ReadCert(p) ==
    /\ calls[p].pc = "readCert"
    /\ calls' = [calls EXCEPT ![p].pc = "idle", ![p].retServer = globalCertificate]
    /\ UNCHANGED <<globalCertificate, globalPem, nKeys, succeeded>>
    /\ UNCHANGED <<srvVars, hdlVars, stkVars>>

CertStep(p) ==
    \/ \E op \in Ops : CallBegin(p, op)
    \/ GenCheck(p)
    \/ \E outcome \in GenOutcomes : GenLocal(p, outcome)
    \/ StoreCert(p)
    \/ StorePem(p)
    \/ GenReturn(p)
    \/ ReadPem(p)
    \/ ReadCert(p)

\* ------------------------------------------------------------- the Server
\* Every Start stores a new http.Server in s.server, and nothing but s.server
\* ever names one, so a handle is told by its relation to s.server: a listen
\* loop serves on the handle s.server holds now ("current"), or on one that a
\* later Start has replaced, which had been shut down by then ("replacedShut")
\* or not ("replaced") and can never be shut down any more.
NoHandle == "nil"

\* A listen loop about to run listenAndServe. addr is the port it read for
\* its bind, lport the port of its open listener (0: none), h the handle it
\* serves on. The rest is history: kind tells the Start that launched the loop
\* when a port is expected of it, and expect is that port:
\*   "retry"  launched after a failed bind on a nonzero port; expect is 0;
\*   "heal"   launched after Serve failed; expect is s.Port at that Start;
\*   "cycle"  launched by ToForeground while the server was stopped with no
\*            listen loop left and a port remembered; expect is that port.
\* The first two are kept until the bind, the last while the loop lives.
NewLoop(kind, expect) ==
    [pc |-> "readPort", addr |-> 0, lport |-> 0, h |-> "none",
     kind |-> kind, expect |-> expect]

\* A loop past its bind: what it asked for is of no further use.
PastListen(r) ==
    IF r.kind = "cycle"
    THEN [r EXCEPT !.addr = 0]
    ELSE [r EXCEPT !.addr = 0, !.kind = "", !.expect = 0]

\* A loop on its way out (its bind has failed or its Serve has returned): it
\* holds no listener and only its position matters.
Leaving(pc) ==
    [pc |-> pc, addr |-> 0, lport |-> 0, h |-> "none", kind |-> "", expect |-> 0]

\* The application goroutine outside any call. op and ret are the last call
\* and what it returned ("nil", "err", or "" for a method without a result);
\* shutdownErr says whether Shutdown failed in it, logged whether the call
\* wrote the error to the log.
IdleApp == [pc |-> "idle", op |-> "", ret |-> "", shutdownErr |-> FALSE, logged |-> FALSE]

\* NewServer: &Server{db, logger, cert: globalCertificate, Port: 0}
ServerFresh ==
    /\ Port = 0
    /\ run = FALSE
    /\ server = NoHandle
    /\ shut = FALSE
    /\ loops = EmptyBag
    /\ app = IdleApp

ActiveLoops == BagToSet(loops)
NumLoops == BagCardinality(loops)

\* Ports on which this Server holds an open listener.
Listeners == {r.lport : r \in ActiveLoops} \ {0}

\* A port this Server holds no listener on.
Free(q) == q \notin Listeners

\* The bag with one loop r replaced by r2.
Replace(r, r2) == (loops (-) SetToBag({r})) (+) SetToBag({r2})

\* The hand-over a background-then-foreground cycle is about: Start is called
\* while no listen loop is alive, the server is stopped and a port is
\* remembered.
InCycle == NumLoops = 0 /\ ~run /\ Port # 0

\* The handle of a serving loop once a new http.Server replaces s.server.
Replaced(r) ==
    IF r.h = "current"
    THEN [r EXCEPT !.h = IF shut THEN "replacedShut" ELSE "replaced"]
    ELSE r

\* A Start by the application ends whatever cycle a loop was part of.
NoCycle(r) == IF r.kind = "cycle" THEN [r EXCEPT !.kind = "", !.expect = 0] ELSE r

AppReplaced(r) == NoCycle(Replaced(r))

\* Start (lines 214-224): a new http.Server is stored in s.server and a new
\* goroutine runs listenAndServe. `others` are the loops that stay.
StartBody(others, kind, expect) ==
    /\ server' = "set"
    /\ shut' = FALSE
    /\ loops' = others (+) SetToBag({NewLoop(kind, expect)})

\* http.Server.Shutdown on the handle in s.server: the handle is marked as
\* shutting down and every listener it tracks is closed.
ShutDown(r) == IF r.h = "current" THEN [r EXCEPT !.lport = 0] ELSE r

ShutdownBody ==
    /\ shut' = TRUE
    /\ loops' = BagOfAll(ShutDown, loops)

\* What Shutdown can return: closing a listener may fail; with no listener to
\* close it returns nil (the context never expires).
ShutdownErrs ==
    IF \E r \in ActiveLoops : r.h = "current" /\ r.lport # 0
    THEN {FALSE, TRUE}
    ELSE {FALSE}

\* ----------------------------------------------------------- listenAndServe
\* Mutant of ListenAddr: the remembered port is used only while running.
ListenAddrWhileRunning == IF run THEN Port ELSE 0

\* line 186: addr := fmt.Sprintf("localhost:%d", s.Port)
ListenAddr == Port

LReadPort(r) ==
    /\ r.pc = "readPort"
    /\ loops' = Replace(r, [r EXCEPT !.pc = "listen", !.addr = ListenAddr])
    /\ UNCHANGED <<Port, run, server, shut, app>>
    /\ UNCHANGED <<certVars, hdlVars, stkVars>>

\* The ports tls.Listen can give for a requested port: the port itself when
\* this Server holds no listener on it, any such port when 0 is requested.
Bindable(addr) == {q \in Ports : Free(q) /\ (addr = 0 \/ addr = q)}

\* line 188, err == nil
LListenOk(r, q) ==
    /\ r.pc = "listen"
    /\ q \in Bindable(r.addr)
    /\ loops' = Replace(r, PastListen([r EXCEPT !.pc = "setPort", !.lport = q]))
    /\ UNCHANGED <<Port, run, server, shut, app>>
    /\ UNCHANGED <<certVars, hdlVars, stkVars>>

\* line 188, err != nil: certain when this Server already listens on the
\* requested port, and possible at any time (another process holds the port,
\* no port or descriptor is left).
LListenFail(r) ==
    /\ r.pc = "listen"
    /\ loops' = Replace(r, [Leaving("bindFailed") EXCEPT
                                !.kind = IF r.addr # 0 THEN "retry" ELSE ""])
    /\ UNCHANGED <<Port, run, server, shut, app>>
    /\ UNCHANGED <<certVars, hdlVars, stkVars>>

\* line 191: s.Port = 0
LResetPort(r) ==
    /\ r.pc = "bindFailed"
    /\ Port' = 0
    /\ loops' = Replace(r, [r EXCEPT !.pc = "retry"])
    /\ UNCHANGED <<run, server, shut, app>>
    /\ UNCHANGED <<certVars, hdlVars, stkVars>>

\* Mutant of LRetryStart: the loop gives up after a failed bind.
LRetryGiveUp(r) ==
    /\ r.pc = "retry"
    /\ loops' = loops (-) SetToBag({r})
    /\ UNCHANGED <<Port, run, server, shut, app>>
    /\ UNCHANGED <<certVars, hdlVars, stkVars>>

\* lines 192-196: err = s.Start(); return. Start returns nil (line 223), so
\* the branch that logs "giving up" is not entered; the loop ends either way.
LRetryStart(r) ==
    /\ r.pc = "retry"
    /\ StartBody(BagOfAll(Replaced, loops (-) SetToBag({r})), r.kind, 0)
    /\ UNCHANGED <<Port, run, app>>
    /\ UNCHANGED <<certVars, hdlVars, stkVars>>

\* Mutant of BoundPort: the port asked for is stored, not the port obtained.
BoundPortRequested(r) == r.addr

\* line 199: listener.Addr().(*net.TCPAddr).Port
BoundPort(r) == r.lport

\* line 199: s.Port = listener.Addr().(*net.TCPAddr).Port
LSetPort(r) ==
    /\ r.pc = "setPort"
    /\ Port' = BoundPort(r)
    /\ loops' = Replace(r, [r EXCEPT !.pc = "setRun"])
    /\ UNCHANGED <<run, server, shut, app>>
    /\ UNCHANGED <<certVars, hdlVars, stkVars>>

\* line 200: s.run = true
LSetRun(r) ==
    /\ r.pc = "setRun"
    /\ run' = TRUE
    /\ loops' = Replace(r, [r EXCEPT !.pc = "serve"])
    /\ UNCHANGED <<Port, server, shut, app>>
    /\ UNCHANGED <<certVars, hdlVars, stkVars>>

\* line 201: s.server.Serve(listener) is entered on the handle s.server holds
\* now. A handle already shut down closes the listener and returns
\* ErrServerClosed at once; otherwise the handle tracks the listener.
LServe(r) ==
    /\ r.pc = "serve"
    /\ loops' = Replace(r,
           IF shut
           THEN Leaving("closed")
           ELSE [r EXCEPT !.pc = "serving", !.h = "current"])
    /\ UNCHANGED <<Port, run, server, shut, app>>
    /\ UNCHANGED <<certVars, hdlVars, stkVars>>

\* Whether Shutdown has been called on the handle loop r serves on.
HandleShut(r) == (r.h = "current" /\ shut) \/ r.h = "replacedShut"

\* line 201 returns ErrServerClosed: the handle was shut down while serving.
LServeClosed(r) ==
    /\ r.pc = "serving"
    /\ HandleShut(r)
    /\ loops' = Replace(r, Leaving("closed"))
    /\ UNCHANGED <<Port, run, server, shut, app>>
    /\ UNCHANGED <<certVars, hdlVars, stkVars>>

\* line 201 returns another error (Accept failed): Serve closes the listener.
LServeError(r) ==
    /\ r.pc = "serving"
    /\ ~HandleShut(r)
    /\ loops' = Replace(r, Leaving("heal"))
    /\ UNCHANGED <<Port, run, server, shut, app>>
    /\ UNCHANGED <<certVars, hdlVars, stkVars>>

\* lines 202-209: err = s.Start(); return
LHealStart(r) ==
    /\ r.pc = "heal"
    /\ StartBody(BagOfAll(Replaced, loops (-) SetToBag({r})), "heal", Port)
    /\ UNCHANGED <<Port, run, app>>
    /\ UNCHANGED <<certVars, hdlVars, stkVars>>

\* line 211: s.run = false, and the goroutine ends.
LSetStopped(r) ==
    /\ r.pc = "closed"
    /\ run' = FALSE
    /\ loops' = loops (-) SetToBag({r})
    /\ UNCHANGED <<Port, server, shut, app>>
    /\ UNCHANGED <<certVars, hdlVars, stkVars>>

\* ------------------------------------------------- the application's calls
\* Mutant of StopResult: Stop swallows Shutdown's error.
StopResultSwallowed(e) == "nil"

\* What Stop hands back for Shutdown's result (line 228).
StopResult(e) == IF e THEN "err" ELSE "nil"

\* Stop (lines 226-232) as one step: s.server is nil, or it is shut down.
StopBody(e) ==
    IF server # NoHandle
    THEN /\ e \in ShutdownErrs
         /\ ShutdownBody
    ELSE /\ e = FALSE
         /\ UNCHANGED <<shut, loops>>

\* The application starts the server, once.
AppStart ==
    /\ app.pc = "idle"
    /\ server = NoHandle
    /\ StartBody(BagOfAll(AppReplaced, loops), "", 0)
    /\ app' = [IdleApp EXCEPT !.op = "Start", !.ret = "nil"]
    /\ UNCHANGED <<Port, run>>
    /\ UNCHANGED <<certVars, hdlVars, stkVars>>

\* The application calls Stop directly.
AppStop(e) ==
    /\ app.pc = "idle"
    /\ StopBody(e)
    /\ app' = [IdleApp EXCEPT !.op = "Stop", !.ret = StopResult(e), !.shutdownErr = e]
    /\ UNCHANGED <<Port, run, server>>
    /\ UNCHANGED <<certVars, hdlVars, stkVars>>

\* line 235: if !s.run && (s.server != nil)
ShouldStart == ~run /\ server # NoHandle

ToForeground ==
    /\ app.pc = "idle"
    /\ app' = [IdleApp EXCEPT !.op = "ToForeground",
                              !.pc = IF ShouldStart THEN "fgStart" ELSE "idle"]
    /\ UNCHANGED <<Port, run, server, shut, loops>>
    /\ UNCHANGED <<certVars, hdlVars, stkVars>>

\* line 236: err := s.Start()
FgStart ==
    /\ app.pc = "fgStart"
    /\ NumLoops < MaxLoops
    /\ IF InCycle
       THEN StartBody(BagOfAll(AppReplaced, loops), "cycle", Port)
       ELSE StartBody(BagOfAll(AppReplaced, loops), "", 0)
    /\ app' = [app EXCEPT !.pc = "idle"]
    /\ UNCHANGED <<Port, run>>
    /\ UNCHANGED <<certVars, hdlVars, stkVars>>

\* Mutant of ShouldStop: ToBackground stops whatever the running flag says.
ShouldStopAlways == TRUE

\* line 244: if s.run
ShouldStop == run

ToBackground ==
    /\ app.pc = "idle"
    /\ app' = [IdleApp EXCEPT !.op = "ToBackground",
                              !.pc = IF ShouldStop THEN "bgStop" ELSE "idle"]
    /\ UNCHANGED <<Port, run, server, shut, loops>>
    /\ UNCHANGED <<certVars, hdlVars, stkVars>>

\* lines 245-248: err := s.Stop(); the error is logged; nothing is returned.
BgStop(e) ==
    /\ app.pc = "bgStop"
    /\ StopBody(e)
    /\ app' = [app EXCEPT !.pc = "idle", !.shutdownErr = e, !.logged = e]
    /\ UNCHANGED <<Port, run, server>>
    /\ UNCHANGED <<certVars, hdlVars, stkVars>>

\* -------------------------------------------------------- resource handlers
\* Values one request can carry for the query parameter its handler reads.
MaxValues == 1
\* Instants time.Now() can return, counted in years from the process start.
MaxTime == 1
\* line 95: time.Now().AddDate(60, 0, 0)
ExpiresYears == 60

Requests == {"r1", "r2"}
Handlers == {"image", "audio", "identicon"}

\* What a client can send as messageId or publicKey: the empty string or an id.
ParamValues == {"", "0x01"}
\* r.URL.Query()[name]: the values of the parameter, none when it is absent.
Queries == UNION {[1..n -> ParamValues] : n \in 0..MaxValues}

\* The ids user_messages can hold a row under (message ids are never empty).
MessageIds == {"0x01"}
\* Byte strings: empty, PNG image data, AAC audio data.
Payloads == {<<>>, <<"PNG">>, <<"ADTS">>}
NoRow == [row |-> FALSE, image_payload |-> <<>>, audio_payload |-> <<>>]
Rows == {NoRow} \cup [row : {TRUE}, image_payload : Payloads, audio_payload : Payloads]

Times == 0..MaxTime
\* t.Format(http.TimeFormat): the instant as an HTTP date.
HttpDate(t) == [format |-> "http.TimeFormat", year |-> t]

\* http.Header of a response: each key holds the list of its values.
NoHeader == [ContentType |-> <<>>, CacheControl |-> <<>>, Expires |-> <<>>]

\* A request slot with no request in it. query is what the client sent, arg the
\* first value of the parameter, payload the bytes looked up or generated,
\* genErr whether identicon.Generate failed, at what time.Now() returned;
\* hdr, body and writes are the response (header map, bytes sent, calls of
\* w.Write), log the messages passed to logger.Error.
IdleReq ==
    [pc |-> "idle", handler |-> "", query |-> <<>>, arg |-> "", payload |-> <<>>,
     genErr |-> FALSE, at |-> 0, hdr |-> NoHeader, body |-> <<>>, writes |-> 0,
     log |-> <<>>]

HandlersIdle ==
    /\ db = [m \in MessageIds |-> NoRow]
    /\ reqs = [p \in Requests |-> IdleReq]

\* The server dispatches a request to the handler of its path.
Arrive(p, h, q) ==
    /\ reqs[p].pc = "idle"
    /\ reqs' = [reqs EXCEPT ![p] = [IdleReq EXCEPT !.pc = "param", !.handler = h, !.query = q]]
    /\ UNCHANGED db
    /\ UNCHANGED <<certVars, srvVars, stkVars>>

\* Mutant of ParamMissing: the handler goes on without the parameter.
ParamMissingIgnored(q) == FALSE

\* lines 83, 106, 138: !ok || len(values) == 0
ParamMissing(q) == Len(q) = 0

NoParamMessage(h) == IF h = "identicon" THEN "no publicKey" ELSE "no messageID"

\* lines 82-87, 105-110, 137-142: the parameter is read; values[0] panics on an
\* empty list.
HParam(p) ==
    LET r == reqs[p] IN
    /\ r.pc = "param"
    /\ reqs' = [reqs EXCEPT ![p] =
           IF ParamMissing(r.query)
           THEN [r EXCEPT !.pc = "done", !.log = Append(@, NoParamMessage(r.handler))]
           ELSE IF Len(r.query) = 0
                THEN [r EXCEPT !.pc = "panic"]
                ELSE [r EXCEPT !.pc = "fetch", !.arg = r.query[1]]]
    /\ UNCHANGED db
    /\ UNCHANGED <<certVars, srvVars, stkVars>>

\* The row stored under an id.
Stored(id) == IF id \in DOMAIN db THEN db[id] ELSE NoRow

\* The column a handler selects.
Column(h, row) == IF h = "image" THEN row.image_payload ELSE row.audio_payload

\* lines 117-120, 149-152
EmptyMessage(h) == IF h = "image" THEN "empty image" ELSE "empty audio"

\* lines 112-120, 144-152: QueryRow(...).Scan fails when no row is stored under
\* the id and whenever the database fails (dbErr); an empty payload ends the
\* request as well.
HLookup(p, dbErr) ==
    LET r == reqs[p]
        row == Stored(r.arg)
        bytes == Column(r.handler, row)
    IN
    /\ r.pc = "fetch"
    /\ r.handler \in {"image", "audio"}
    /\ reqs' = [reqs EXCEPT ![p] =
           IF dbErr \/ ~row.row
           THEN [r EXCEPT !.pc = "done", !.log = Append(@, "failed to find image")]
           ELSE IF Len(bytes) = 0
                THEN [r EXCEPT !.pc = "done", !.log = Append(@, EmptyMessage(r.handler))]
                ELSE [r EXCEPT !.pc = "headers", !.payload = bytes]]
    /\ UNCHANGED db
    /\ UNCHANGED <<certVars, srvVars, stkVars>>

\* identicon.Generate(pk): the PNG of the key; or an error with no bytes, or
\* an error after part of the PNG was encoded.
Identicon(pk) == <<"PNG", pk>>
GenerateOutcomes(pk) ==
    {[bytes |-> Identicon(pk), err |-> FALSE],
     [bytes |-> <<>>, err |-> TRUE],
     [bytes |-> <<"PNG">>, err |-> TRUE]}

\* lines 89-91: the error is logged and the handler goes on.
AfterGenerate(err) == "headers"

\* lines 88-91
HGenerate(p, out) ==
    LET r == reqs[p] IN
    /\ r.pc = "fetch"
    /\ r.handler = "identicon"
    /\ out \in GenerateOutcomes(r.arg)
    /\ reqs' = [reqs EXCEPT ![p] =
           [r EXCEPT !.pc = AfterGenerate(out.err), !.payload = out.bytes, !.genErr = out.err,
                     !.log = IF out.err THEN Append(@, "could not generate identicon") ELSE @]]
    /\ UNCHANGED db
    /\ UNCHANGED <<certVars, srvVars, stkVars>>

\* images.ImageMime(bytes): the MIME type the leading bytes announce.
ImageMime(bytes) ==
    IF Len(bytes) > 0 /\ bytes[1] = "PNG"
    THEN [mime |-> "image/png", err |-> FALSE]
    ELSE [mime |-> "", err |-> TRUE]

\* Mutant of AudioContentType: the audio handler sniffs like the image handler.
AudioContentTypeSniffed(bytes) == ImageMime(bytes).mime

\* line 154
AudioContentType(bytes) == "audio/aac"

\* lines 93, 126, 154
ContentType(h, bytes) ==
    CASE h = "identicon" -> "image/png"
      [] h = "image" -> ImageMime(bytes).mime
      [] h = "audio" -> AudioContentType(bytes)

\* Mutant of CacheControl: every handler lets the client cache.
CacheControlCaching(h) == "max-age:290304000, public"

\* lines 94, 127, 155
CacheControl(h) == IF h = "identicon" THEN "max-age:290304000, public" ELSE "no-store"

\* lines 93-95, 121-127, 154-155: the handler sets its headers.
HHeaders(p, t) ==
    LET r == reqs[p] IN
    /\ r.pc = "headers"
    /\ t = 0 \/ r.handler = "identicon"
    /\ reqs' = [reqs EXCEPT ![p] =
           [r EXCEPT !.pc = "write",
                     !.at = t,
                     !.hdr = [ContentType |-> <<ContentType(r.handler, r.payload)>>,
                              CacheControl |-> <<CacheControl(r.handler)>>,
                              Expires |-> IF r.handler = "identicon"
                                          THEN <<HttpDate(t + ExpiresYears)>>
                                          ELSE <<>>],
                     !.log = IF r.handler = "image" /\ ImageMime(r.payload).err
                             THEN Append(@, "failed to get mime") ELSE @]]
    /\ UNCHANGED db
    /\ UNCHANGED <<certVars, srvVars, stkVars>>

WriteFailedMessage(h) == IF h = "audio" THEN "failed to write audio" ELSE "failed to write image"

\* lines 97-100, 129-132, 157-160: w.Write(bytes); when it fails nothing has
\* reached the client and the error is logged.
HWrite(p, ok) ==
    LET r == reqs[p] IN
    /\ r.pc = "write"
    /\ reqs' = [reqs EXCEPT ![p] =
           [r EXCEPT !.pc = "done",
                     !.writes = @ + 1,
                     !.body = IF ok THEN r.payload ELSE <<>>,
                     !.log = IF ok THEN @ ELSE Append(@, WriteFailedMessage(r.handler))]]
    /\ UNCHANGED db
    /\ UNCHANGED <<certVars, srvVars, stkVars>>

\* The handler has returned and the server has sent the response.
HFinish(p) ==
    /\ reqs[p].pc = "done"
    /\ reqs' = [reqs EXCEPT ![p] = IdleReq]
    /\ UNCHANGED db
    /\ UNCHANGED <<certVars, srvVars, stkVars>>

\* ------------------------------------------------------------- stickers API
\* Width in bits of the map key uint(packID.Uint64()).
KeyBits == 2
KeyModulus == 2 ^ KeyBits

StkCallers == {"a", "b"}
StkOps == {"AddPending", "RemovePending", "Pending"}

\* Pack ids a caller can pass: two that fit the key and one that does not.
PackIds == {1, 2, KeyModulus + 1}

\* lines 17, 31, 95, 99: uint(packID.Uint64()), the low bits of the big integer
Key(packID) == packID % KeyModulus

\* A StickerPackCollection maps keys to packs; a pack is named by the id it
\* was fetched for.
EmptyCollection == <<>>
Has(c, k) == k \in DOMAIN c
Put(c, k, pack) == [j \in DOMAIN c \cup {k} |-> IF j = k THEN pack ELSE c[j]]
Delete(c, k) == [j \in DOMAIN c \ {k} |-> c[j]]

\* encoding/json: a map becomes an object with one member per key.
Marshal(c) == {<<k, c[k]>> : k \in DOMAIN c}
Unmarshal(json) ==
    [k \in {e[1] : e \in json} |-> (CHOOSE e \in json : e[1] = k)[2]]

\* The stored column: NULL, or the JSON last saved.
NullSetting == [null |-> TRUE, json |-> {}]
Saved(c) == [null |-> FALSE, json |-> Marshal(c)]

\* The packs the store holds as pending.
StoredPacks(s) == {e[2] : e \in s.json}

\* A goroutine outside any call; op, packID and ret tell its last call and
\* what it returned ("nil" or "err", "" before any call).
IdleStk == [pc |-> "idle", op |-> "", packID |-> 0, pendingPacks |-> EmptyCollection, ret |-> ""]

StickersIdle ==
    /\ settings = NullSetting
    /\ stk = [c \in StkCallers |-> IdleStk]

Return(r, ret) == [r EXCEPT !.pc = "idle", !.pendingPacks = EmptyCollection, !.ret = ret]

\* A goroutine enters AddPending, RemovePending or Pending.
SCall(c, op, p) ==
    /\ stk[c].pc = "idle"
    /\ op = "Pending" => p = 0
    /\ op # "Pending" => p \in PackIds
    /\ stk' = [stk EXCEPT ![c] = [IdleStk EXCEPT !.pc = "read", !.op = op, !.packID = p]]
    /\ UNCHANGED settings
    /\ UNCHANGED <<certVars, srvVars, hdlVars>>

\* lines 36-54: a NULL column is the empty collection, anything else is decoded.
pendingStickerPacks == IF settings.null THEN EmptyCollection ELSE Unmarshal(settings.json)

\* lines 17, 95: _, exists := pendingPacks[uint(packID.Uint64())]
Exists(c, packID) == Has(c, Key(packID))

\* lines 17-19, 95-99, 62: what each method does with the collection it read.
AfterRead(r, c) ==
    CASE r.op = "AddPending" ->
            IF Exists(c, r.packID)
            THEN Return(r, "err")
            ELSE [r EXCEPT !.pc = "contract", !.pendingPacks = c]
      [] r.op = "RemovePending" ->
            IF ~Exists(c, r.packID)
            THEN Return(r, "nil")
            ELSE [r EXCEPT !.pc = "save", !.pendingPacks = Delete(c, Key(r.packID))]
      [] r.op = "Pending" -> [r EXCEPT !.pc = "decode", !.pendingPacks = c]

\* lines 12-15, 57-60, 90-93: api.pendingStickerPacks(); GetPendingStickerPacks
\* can fail.
SRead(c, ok) ==
    /\ stk[c].pc = "read"
    /\ stk' = [stk EXCEPT ![c] =
           IF ok THEN AfterRead(stk[c], pendingStickerPacks) ELSE Return(stk[c], "err")]
    /\ UNCHANGED settings
    /\ UNCHANGED <<certVars, srvVars, hdlVars>>

\* lines 21-24: api.contractMaker.NewStickerType(chainID)
SContract(c, ok) ==
    /\ stk[c].pc = "contract"
    /\ stk' = [stk EXCEPT ![c] =
           IF ok THEN [stk[c] EXCEPT !.pc = "fetch"] ELSE Return(stk[c], "err")]
    /\ UNCHANGED settings
    /\ UNCHANGED <<certVars, srvVars, hdlVars>>

\* lines 26-31: api.fetchPackData(stickerType, packID.Int, false), then
\* pendingPacks[uint(packID.Uint64())] = *stickerPack
SFetch(c, ok) ==
    LET r == stk[c] IN
    /\ r.pc = "fetch"
    /\ stk' = [stk EXCEPT ![c] =
           IF ok
           THEN [r EXCEPT !.pc = "save",
                          !.pendingPacks = Put(r.pendingPacks, Key(r.packID), r.packID)]
           ELSE Return(r, "err")]
    /\ UNCHANGED settings
    /\ UNCHANGED <<certVars, srvVars, hdlVars>>

\* lines 33, 101: return api.accountsDB.SaveSettingField(StickersPacksPending, pendingPacks)
SSave(c, ok) ==
    /\ stk[c].pc = "save"
    /\ settings' = IF ok THEN Saved(stk[c].pendingPacks) ELSE settings
    /\ stk' = [stk EXCEPT ![c] = Return(stk[c], IF ok THEN "nil" ELSE "err")]
    /\ UNCHANGED <<certVars, srvVars, hdlVars>>

\* lines 62-86: the hashes of every pack are decoded; decodeStringHash can fail.
SDecode(c, ok) ==
    /\ stk[c].pc = "decode"
    /\ stk' = [stk EXCEPT ![c] = Return(stk[c], IF ok THEN "nil" ELSE "err")]
    /\ UNCHANGED settings
    /\ UNCHANGED <<certVars, srvVars, hdlVars>>

StickerStep(c) ==
    \/ \E op \in StkOps, p \in PackIds \cup {0} : SCall(c, op, p)
    \/ \E ok \in BOOLEAN : SRead(c, ok)
    \/ \E ok \in BOOLEAN : SContract(c, ok)
    \/ \E ok \in BOOLEAN : SFetch(c, ok)
    \/ \E ok \in BOOLEAN : SSave(c, ok)
    \/ \E ok \in BOOLEAN : SDecode(c, ok)

\* ---------------------------------------------------------- specifications
\* The Server as NewServer returned it, the certificate generated.
Init ==
    /\ globalCertificate = X509KeyPair(CertPem(1), KeyPem(1))
    /\ globalPem = CertPem(1)
    /\ nKeys = 1
    /\ succeeded = TRUE
    /\ calls = [p \in Callers |-> IdleCall]
    /\ ServerFresh
    /\ HandlersIdle
    /\ StickersIdle

Next ==
    \/ AppStart
    \/ \E e \in BOOLEAN : AppStop(e)
    \/ ToForeground
    \/ FgStart
    \/ ToBackground
    \/ \E e \in BOOLEAN : BgStop(e)
    \/ \E r \in ActiveLoops : LReadPort(r)
    \/ \E r \in ActiveLoops, q \in Ports : LListenOk(r, q)
    \/ \E r \in ActiveLoops : LListenFail(r)
    \/ \E r \in ActiveLoops : LResetPort(r)
    \/ \E r \in ActiveLoops : LRetryStart(r)
    \/ \E r \in ActiveLoops : LSetPort(r)
    \/ \E r \in ActiveLoops : LSetRun(r)
    \/ \E r \in ActiveLoops : LServe(r)
    \/ \E r \in ActiveLoops : LServeClosed(r)
    \/ \E r \in ActiveLoops : LServeError(r)
    \/ \E r \in ActiveLoops : LHealStart(r)
    \/ \E r \in ActiveLoops : LSetStopped(r)

Spec == Init /\ [][Next]_vars

\* Scheduling: a goroutine that can take its next step takes it, and a call of
\* tls.Listen returns. Whether a bind succeeds, whether Serve fails and what
\* the application calls are left open.
LoopFairness ==
    /\ WF_vars(\E r \in ActiveLoops : LReadPort(r))
    /\ WF_vars(\E r \in ActiveLoops : LListenFail(r) \/ \E q \in Ports : LListenOk(r, q))
    /\ WF_vars(\E r \in ActiveLoops : LResetPort(r))
    /\ WF_vars(\E r \in ActiveLoops : LRetryStart(r))
    /\ WF_vars(\E r \in ActiveLoops : LSetPort(r))
    /\ WF_vars(\E r \in ActiveLoops : LSetRun(r))
    /\ WF_vars(\E r \in ActiveLoops : LServe(r))
    /\ WF_vars(\E r \in ActiveLoops : LServeClosed(r))
    /\ WF_vars(\E r \in ActiveLoops : LHealStart(r))
    /\ WF_vars(\E r \in ActiveLoops : LSetStopped(r))

\* The Server driven by an application that asks for the foreground only once
\* the previous listen loop has ended, so that one loop is alive at a time.
LiveNext ==
    \/ AppStart
    \/ \E e \in BOOLEAN : AppStop(e)
    \/ NumLoops = 0 /\ ToForeground
    \/ FgStart
    \/ ToBackground
    \/ \E e \in BOOLEAN : BgStop(e)
    \/ \E r \in ActiveLoops : LReadPort(r)
    \/ \E r \in ActiveLoops, q \in Ports : LListenOk(r, q)
    \/ \E r \in ActiveLoops : LListenFail(r)
    \/ \E r \in ActiveLoops : LResetPort(r)
    \/ \E r \in ActiveLoops : LRetryStart(r)
    \/ \E r \in ActiveLoops : LSetPort(r)
    \/ \E r \in ActiveLoops : LSetRun(r)
    \/ \E r \in ActiveLoops : LServe(r)
    \/ \E r \in ActiveLoops : LServeClosed(r)
    \/ \E r \in ActiveLoops : LServeError(r)
    \/ \E r \in ActiveLoops : LHealStart(r)
    \/ \E r \in ActiveLoops : LSetStopped(r)

LiveSpec == Init /\ [][LiveNext]_vars /\ LoopFairness

\* The process before any certificate exists.
CertInit ==
    /\ globalCertificate = NilCert
    /\ globalPem = EmptyString
    /\ nKeys = 0
    /\ succeeded = FALSE
    /\ calls = [p \in Callers |-> IdleCall]
    /\ ServerFresh
    /\ HandlersIdle
    /\ StickersIdle

\* Calls from any number of goroutines at once.
CertNext == \E p \in Callers : CertStep(p)

CertSpec == CertInit /\ [][CertNext]_vars

\* One call at a time: a goroutine steps only while every other one is outside
\* any call.
OthersIdle(p) == \A q \in Callers \ {p} : calls[q].pc = "idle"

CertSeqNext == \E p \in Callers : OthersIdle(p) /\ CertStep(p)

CertSeqSpec == CertInit /\ [][CertSeqNext]_vars

\* The handlers of one Server over any content of user_messages.
HandlerInit ==
    /\ globalCertificate = X509KeyPair(CertPem(1), KeyPem(1))
    /\ globalPem = CertPem(1)
    /\ nKeys = 1
    /\ succeeded = TRUE
    /\ calls = [p \in Callers |-> IdleCall]
    /\ ServerFresh
    /\ db \in [MessageIds -> Rows]
    /\ reqs = [p \in Requests |-> IdleReq]
    /\ StickersIdle

HandlerNext ==
    \/ \E p \in Requests, h \in Handlers, q \in Queries : Arrive(p, h, q)
    \/ \E p \in Requests : HParam(p)
    \/ \E p \in Requests, dbErr \in BOOLEAN : HLookup(p, dbErr)
    \/ \E p \in Requests : \E out \in GenerateOutcomes(reqs[p].arg) : HGenerate(p, out)
    \/ \E p \in Requests, t \in Times : HHeaders(p, t)
    \/ \E p \in Requests, ok \in BOOLEAN : HWrite(p, ok)
    \/ \E p \in Requests : HFinish(p)

HandlerSpec == HandlerInit /\ [][HandlerNext]_vars

\* The API over a fresh settings store, called from any number of goroutines.
StickerInit ==
    /\ globalCertificate = X509KeyPair(CertPem(1), KeyPem(1))
    /\ globalPem = CertPem(1)
    /\ nKeys = 1
    /\ succeeded = TRUE
    /\ calls = [p \in Callers |-> IdleCall]
    /\ ServerFresh
    /\ HandlersIdle
    /\ StickersIdle

StickerNext ==
    \/ \E c \in StkCallers, op \in StkOps, p \in PackIds \cup {0} : SCall(c, op, p)
    \/ \E c \in StkCallers, ok \in BOOLEAN : SRead(c, ok)
    \/ \E c \in StkCallers, ok \in BOOLEAN : SContract(c, ok)
    \/ \E c \in StkCallers, ok \in BOOLEAN : SFetch(c, ok)
    \/ \E c \in StkCallers, ok \in BOOLEAN : SSave(c, ok)
    \/ \E c \in StkCallers, ok \in BOOLEAN : SDecode(c, ok)

StickerSpec == StickerInit /\ [][StickerNext]_vars

\* One call at a time.
OthersIdleStk(c) == \A d \in StkCallers \ {c} : stk[d].pc = "idle"

StickerSeqNext == \E c \in StkCallers : OthersIdleStk(c) /\ StickerStep(c)

StickerSeqSpec == StickerInit /\ [][StickerSeqNext]_vars

\* ------------------------------------------------------------------ claims
\* The application's last call has returned.
Returned(op) == app.pc = "idle" /\ app.op = op

\* C1. Port stickiness across a lifecycle cycle: a listen loop launched by
\* ToForeground while the server is stopped, no listen loop is left and port P
\* is remembered asks to bind exactly P; once its bind has succeeded Port is P
\* again, and once it has set the running flag the server runs with Port = P.
C1_PortSticky ==
    \A r \in ActiveLoops :
        r.kind = "cycle" =>
            /\ r.expect # 0
            /\ r.pc = "listen" => r.addr = r.expect
            /\ r.pc \in {"setPort", "setRun", "serve"} => r.lport = r.expect
            /\ r.pc \in {"setRun", "serve", "serving"} => Port = r.expect
            /\ r.pc \in {"serve", "serving"} => run

C1_Witness ==
    \E r \in ActiveLoops :
        /\ r.kind = "cycle" /\ r.pc = "serving" /\ r.lport = r.expect
        /\ run /\ Port = r.expect

\* C2. Bind-failure fallback: the listen loop that Start launches after a
\* failed bind on a remembered (nonzero) port asks for port 0.
C2_RetryBindsEphemeral ==
    \A r \in ActiveLoops :
        (r.kind = "retry" /\ r.pc = "listen") => r.addr = r.expect

\* C3. No-op lifecycle transitions: ToBackground while the running flag is
\* false, ToForeground while it is true, and ToForeground with no server handle
\* are over in their first step (neither Start nor Stop follows) and leave
\* Port, the running flag, the handle and every listen loop and listener as
\* they were.
C3_NoOpTransitions ==
    [][((ToBackground /\ ~run) \/ (ToForeground /\ (run \/ server = NoHandle)))
           => (app'.pc = "idle" /\ UNCHANGED <<Port, run, server, shut, loops>>)]_vars

C3_Witness ==
    /\ Returned("ToForeground")
    /\ run
    /\ NumLoops = 1
    /\ \E r \in ActiveLoops : r.pc = "serving"

\* C4. No duplicate listeners: at most one listen loop is alive and at most
\* one listener is bound at any time.
C4_SingleListenLoop == NumLoops <= 1 /\ Cardinality(Listeners) <= 1

\* C5. Sequential idempotence of certificate generation: once a
\* generateTLSCert call has returned nil, no later step generates a key or
\* changes globalCertificate or globalPem, and every caller that was handed
\* material holds the material of the globals.
C5_SequentialIdempotence ==
    /\ [][succeeded => UNCHANGED <<globalCertificate, globalPem, nKeys>>]_vars
    /\ [](\A p \in Callers :
            (calls[p].pc = "idle" /\ calls[p].retErr = "nil") =>
                /\ calls[p].op = "NewServer" =>
                       (calls[p].retServer = globalCertificate /\ globalCertificate # NilCert)
                /\ calls[p].op = "PublicTLSCert" =>
                       (calls[p].retPem = globalPem /\ globalPem # EmptyString))

C5_Witness ==
    /\ succeeded
    /\ calls[1].pc = "idle" /\ calls[1].op = "NewServer" /\ calls[1].retErr = "nil"
    /\ calls[2].pc = "idle" /\ calls[2].op = "PublicTLSCert" /\ calls[2].retErr = "nil"
    /\ PemOfCert(calls[1].retServer) = calls[2].retPem

\* C6. Race-free first generation: the global certificate is written exactly
\* once, so a certificate a caller has been handed is never replaced.
C6_WrittenOnce ==
    [][globalCertificate # NilCert => globalCertificate' = globalCertificate]_vars

\* C7. Serve-termination handling: the listen loop that Start launches after
\* Serve returned an unexpected error asks to bind the port that was
\* remembered when Serve returned.
C7_HealBindsRemembered ==
    \A r \in ActiveLoops :
        (r.kind = "heal" /\ r.pc = "listen") => r.addr = r.expect

\* C8 as claimed. Whenever Shutdown fails in a Stop or in a background
\* transition, the error is what the application's call returns.
C8_ShutdownErrorReturned ==
    (app.pc = "idle" /\ app.op \in {"Stop", "ToBackground"} /\ app.shutdownErr)
        => app.ret = "err"

\* C8 as amended. Stop with no handle returns nil and changes nothing; Stop
\* with a handle shuts that handle down, closing its listeners, and returns
\* Shutdown's error to its caller; in a background transition that caller is
\* ToBackground, which logs the error and returns nothing.
C8_StopSemantics ==
    /\ [][(\E e \in BOOLEAN : AppStop(e)) =>
            IF server = NoHandle
            THEN app'.ret = "nil" /\ UNCHANGED <<Port, run, server, shut, loops>>
            ELSE /\ shut'
                 /\ \A r \in BagToSet(loops') : r.h = "current" => r.lport = 0
                 /\ UNCHANGED <<Port, run, server>>]_vars
    /\ [](Returned("Stop") => (app.ret = "err" <=> app.shutdownErr))
    /\ [](Returned("ToBackground") =>
            (app.ret = "" /\ (app.logged <=> app.shutdownErr)))

C8_Witness == Returned("ToBackground") /\ app.shutdownErr /\ app.logged /\ app.ret = ""

\* C9. Certificate-generation failure: a failed key generation, certificate
\* construction, PEM encoding or key-pair parsing sends the call straight to
\* its return without touching the globals; a call that returned an error
\* handed out no Server and the empty string; the globals are set only by a
\* call whose generation succeeded; and a call that finds no certificate
\* generates.
C9_GenerationFailure ==
    /\ [][\A p \in Callers :
            (calls[p].pc = "gen" /\ calls'[p].err) =>
                (calls'[p].pc = "ret" /\ UNCHANGED <<globalCertificate, globalPem>>)]_vars
    /\ [][\A p \in Callers :
            (calls[p].pc = "ret" /\ calls[p].err) =>
                (calls'[p] = calls[p] \/
                 (calls'[p].pc = "idle" /\ UNCHANGED <<globalCertificate, globalPem>>))]_vars
    /\ [](\A p \in Callers :
            calls[p].retErr = "err" =>
                /\ calls[p].pc = "idle"
                /\ calls[p].retServer = NilCert
                /\ calls[p].retPem = EmptyString)
    /\ [](globalCertificate # NilCert =>
            (succeeded \/ \E p \in Callers :
                calls[p].pc \in {"storePem", "ret"} /\ ~calls[p].err /\ calls[p].key # 0))
    /\ [](globalPem # EmptyString => globalCertificate # NilCert)
    /\ [][\A p \in Callers :
            (calls[p].pc = "check" /\ globalCertificate = NilCert /\ calls'[p] # calls[p])
                => calls'[p].pc = "gen"]_vars

C9_Witness ==
    /\ calls[1].pc = "idle" /\ calls[1].op = "NewServer" /\ calls[1].retErr = "err"
    /\ calls[2].pc = "gen"
    /\ globalCertificate = NilCert /\ globalPem = EmptyString
    /\ nKeys > 0

\* C10. Certificate export consistency: whenever PublicTLSCert has returned a
\* nil error, the string it returned is non-empty and is the public
\* certificate PEM of the certificate in globalCertificate.
C10_ExportConsistent ==
    \A p \in Callers :
        (calls[p].pc = "idle" /\ calls[p].op = "PublicTLSCert" /\ calls[p].retErr = "nil") =>
            /\ calls[p].retPem # EmptyString
            /\ calls[p].retPem = PemOfCert(globalCertificate)

\* The handler of a request has set no header and written nothing.
Silent(r) == r.hdr = NoHeader /\ r.body = <<>> /\ r.writes = 0

\* The request names no message whose payload the handler could send: the
\* messageId is empty, no row is stored under it, or the stored payload of the
\* handler's column is empty.
NothingStored(r) ==
    \/ r.query[1] = ""
    \/ ~Stored(r.query[1]).row
    \/ Len(Column(r.handler, Stored(r.query[1]))) = 0

C12_AudioContentType ==
    \A p \in Requests :
        (reqs[p].handler = "audio" /\ ~Silent(reqs[p])) =>
            reqs[p].hdr.ContentType = <<"audio/aac">>

C12_Witness ==
    /\ reqs["r1"].pc = "done" /\ reqs["r1"].handler = "audio"
    /\ reqs["r1"].body = <<"PNG">>
    /\ reqs["r1"].hdr.ContentType = <<"audio/aac">>

\* Nothing is left to do unless the application calls again or Serve fails:
\* the last call has returned and every listen loop is blocked in Serve on a
\* handle that has not been shut down.
Quiescent ==
    /\ app.pc = "idle"
    /\ server # NoHandle
    /\ \A r \in ActiveLoops : r.pc = "serving" /\ ~HandleShut(r)

\* C13. Lifecycle convergence: when the calls have ceased and the listen loops
\* have come to rest, a started Server is in the state its last lifecycle call
\* asked for: stopped with no listener after ToBackground, running with one
\* listener after ToForeground.
C13_Converges ==
    Quiescent =>
        /\ app.op = "ToBackground" => (~run /\ Listeners = {})
        /\ app.op = "ToForeground" => (run /\ Cardinality(Listeners) = 1)

\* The application's calls.
AppCall ==
    \/ AppStart
    \/ \E e \in BOOLEAN : AppStop(e)
    \/ ToForeground
    \/ FgStart
    \/ ToBackground
    \/ \E e \in BOOLEAN : BgStop(e)

\* C14. Port change discipline: no step of Start, Stop, ToForeground or
\* ToBackground changes Port; Port changes only in a listen loop, to 0 in the
\* statement after a failed bind or to the port of the loop's listener in the
\* statement after a successful bind, which always stores that port; and a
\* bind that asked for a nonzero port and succeeded holds that very port.
C14_PortDiscipline ==
    /\ [][AppCall => Port' = Port]_vars
    /\ [][Port' # Port =>
            \E r \in ActiveLoops :
                \/ r.pc = "bindFailed" /\ LResetPort(r) /\ Port' = 0
                \/ r.pc = "setPort" /\ LSetPort(r) /\ Port' = r.lport /\ r.lport # 0]_vars
    /\ [][\A r \in ActiveLoops :
            LSetPort(r) => (Port' = r.lport /\ Port' \in Listeners)]_vars
    /\ [][\A r \in ActiveLoops, q \in Ports :
            (LListenOk(r, q) /\ r.addr # 0) => q = r.addr]_vars

C14_Witness ==
    /\ Returned("ToForeground")
    /\ \E r \in ActiveLoops :
          r.kind = "cycle" /\ r.pc = "setRun" /\ Port = r.expect /\ r.lport = Port

\* C15. Running flag implies a bound port: whenever the running flag is true,
\* Port is nonzero and this Server holds a listener on it.
C15_RunImpliesBound == run => (Port # 0 /\ Port \in Listeners)

\* Some listen loop is at the given position.
At(pc) == \E r \in ActiveLoops : r.pc = pc

\* C16. Unbounded bind retry: the steps after a failed bind (the failure, the
\* reset of Port, the call of Start) never end the listen loop without a
\* successor, the call of Start always launches a loop that starts over at
\* reading Port, and a failed bind leads to another bind attempt, however often
\* binds have failed before; a successful bind leads to the running flag being
\* set.
C16_UnboundedRetry ==
    /\ [][\A r \in ActiveLoops :
            (LListenFail(r) \/ LResetPort(r) \/ LRetryStart(r)) =>
                NumLoops' = NumLoops]_vars
    /\ [][\A r \in ActiveLoops :
            LRetryStart(r) => \E n \in BagToSet(loops') : n.pc = "readPort"]_vars
    /\ (At("bindFailed") ~> At("listen"))
    /\ (At("setPort") ~> run)

C16_Witness ==
    /\ run /\ Port = 0
    /\ \E r \in ActiveLoops : r.kind = "retry" /\ r.pc = "listen" /\ r.addr = 0

\* C17. Identicon generation failure: when identicon.Generate has returned an
\* error and no bytes, the identicon handler sets no header and writes nothing;
\* it sets headers and writes only when the generator produced bytes.
C17_GenerationFailureSilent ==
    \A p \in Requests :
        LET r == reqs[p] IN
        r.handler = "identicon" =>
            /\ (r.genErr /\ r.payload = <<>>) => Silent(r)
            /\ ~Silent(r) => Len(r.payload) > 0

\* C18. Cache policy by content kind: an image or audio response with a body
\* has Cache-Control no-store and no Expires; an identicon response with a
\* body has Content-Type image/png, a Cache-Control other than no-store and an
\* Expires date later than the time of the request; and by the time a handler
\* calls Write it has set Content-Type and Cache-Control.
C18_CachePolicy ==
    \A p \in Requests :
        LET r == reqs[p] IN
        /\ (r.handler \in {"image", "audio"} /\ Len(r.body) > 0) =>
              /\ r.hdr.CacheControl = <<"no-store">>
              /\ Len(r.hdr.Expires) = 0
        /\ (r.handler = "identicon" /\ Len(r.body) > 0) =>
              /\ r.hdr.ContentType = <<"image/png">>
              /\ Len(r.hdr.CacheControl) = 1
              /\ r.hdr.CacheControl # <<"no-store">>
              /\ Len(r.hdr.Expires) = 1
              /\ r.hdr.Expires[1].year > r.at
        /\ r.writes > 0 =>
              /\ Len(r.hdr.ContentType) = 1
              /\ Len(r.hdr.CacheControl) = 1

C18_Witness ==
    /\ reqs["r1"].pc = "done" /\ reqs["r1"].handler = "identicon"
    /\ reqs["r1"].body = Identicon("0x01") /\ reqs["r1"].at = MaxTime
    /\ reqs["r2"].pc = "done" /\ reqs["r2"].handler = "image"
    /\ reqs["r2"].body = <<"ADTS">>
    /\ reqs["r2"].hdr.ContentType = <<"">>

\* The step with which goroutine c returns ret from a call of op.
Returns(c, op, ret) ==
    /\ stk[c].op = op /\ stk[c].pc # "idle"
    /\ stk'[c].pc = "idle" /\ stk'[c].ret = ret

\* A step of goroutine c inside a call of op.
StepOf(c, op) == stk[c].op = op /\ stk[c].pc # "idle" /\ stk'[c] # stk[c]

\* C19. Pending sticker-pack CRUD, one call at a time. AddPending(p) returns
\* nil only if p was not stored as pending, and the stored set is then the
\* previous one plus p; an AddPending that finds p pending returns an error at
\* once, and one that returns an error has written nothing. RemovePending(p)
\* that returns nil leaves the previous set minus p, and when p is not pending
\* it returns nil from its read without ever writing. Pending never writes.
C19_PendingCRUD ==
    [][\A c \in StkCallers :
        LET p == stk[c].packID
            before == StoredPacks(settings)
            after == StoredPacks(settings')
        IN
        /\ Returns(c, "AddPending", "nil") => (p \notin before /\ after = before \cup {p})
        /\ (SRead(c, TRUE) /\ stk[c].op = "AddPending" /\ p \in before) =>
               Returns(c, "AddPending", "err")
        /\ Returns(c, "AddPending", "err") => settings' = settings
        /\ (StepOf(c, "AddPending") /\ stk[c].pc # "save") => settings' = settings
        /\ Returns(c, "RemovePending", "nil") => after = before \ {p}
        /\ (SRead(c, TRUE) /\ stk[c].op = "RemovePending" /\ p \notin before) =>
               (Returns(c, "RemovePending", "nil") /\ settings' = settings)
        /\ (StepOf(c, "RemovePending") /\ p \notin before) => settings' = settings
        /\ StepOf(c, "Pending") => settings' = settings]_vars

\* C20. No lost update in the pending set: a save with which AddPending or
\* RemovePending returns nil changes the stored set in its own pack only, so
\* what another call on a different pack has saved meanwhile stays stored and
\* the set reflects both calls.
C20_NoLostUpdate ==
    [][\A c \in StkCallers :
        (stk[c].pc = "save" /\ stk'[c].pc = "idle" /\ stk'[c].ret = "nil") =>
            \A q \in PackIds :
                Key(q) # Key(stk[c].packID) =>
                    (q \in StoredPacks(settings') <=> q \in StoredPacks(settings))]_vars

====
